---- MODULE Spec2Model ----
(***************************************************************************)
(* A model of scabha's cab core: validate_parameters (validate.py) and     *)
(* Cab.validate / update_parameter / build_argument_list /                 *)
(* apply_output_wranglers (cargo.py).                                      *)
(*                                                                         *)
(* Python objects are tagged records [k |-> kind, v |-> payload].  A       *)
(* Python str is a sequence of tokens; a token is one character or one     *)
(* "{...}" replacement field (which str.format treats as a unit). A Python *)
(* dict is a sequence of [name, value] entries in insertion order.         *)
(***************************************************************************)
EXTENDS Integers, Sequences, FiniteSets, TLC

VARIABLES
    wranglers,          \* Cab._wranglers, compiled at construction
    runtime_status,     \* Cab._runtime_status
    wr_call,            \* the last apply_output_wranglers call: arguments and return value
    v_in,               \* the arguments of a validate_parameters call
    v_out,              \* what that call returned or raised
    v_again,            \* what validate_parameters returned or raised on v_out's mapping
    cab,                \* a Cab: inputs_outputs, policies, defaults, params
    cab_call            \* the last call of a method of cab: what it returned or raised

vars == <<wranglers, runtime_status, wr_call, v_in, v_out, v_again, cab, cab_call>>

(***************************************************************************)
(* Python values                                                           *)
(***************************************************************************)
None == [k |-> "none", v |-> 0]
PyBool(b) == [k |-> "bool", v |-> b]
PyInt(n) == [k |-> "int", v |-> n]
PyStr(s) == [k |-> "str", v |-> s]
PyList(items) == [k |-> "list", v |-> items]
\* validate.Error, a str subclass
Error(msg) == [k |-> "err", v |-> msg]
\* validate.Unresolved
Unresolved(value) == [k |-> "unres", v |-> value]
\* an omegaconf DictConfig node with the given keys
DictConfig(keys) == [k |-> "omegaconf", v |-> keys]

\* isinstance(value, str): Error is a str subclass
IsStrLike(value) == value.k \in {"str", "err"}

(***************************************************************************)
(* Python dict, in insertion order                                         *)
(***************************************************************************)
Item(name, value) == [name |-> name, value |-> value]
Has(d, name) == \E i \in 1..Len(d) : d[i].name = name
\* d.get(name)
Get(d, name) ==
    IF Has(d, name) THEN d[CHOOSE i \in 1..Len(d) : d[i].name = name].value ELSE None
\* d[name] = value: an existing key keeps its place, a new one goes last
Set(d, name, value) ==
    IF Has(d, name)
    THEN [i \in 1..Len(d) |-> IF d[i].name = name THEN Item(name, value) ELSE d[i]]
    ELSE Append(d, Item(name, value))
RECURSIVE Update(_, _)
\* d.update(**other)
Update(d, other) ==
    IF other = <<>> THEN d
    ELSE Update(Set(d, Head(other).name, Head(other).value), Tail(other))
Keys(d) == [i \in 1..Len(d) |-> d[i].name]

\* Bounds of the inputs
MaxLineLen == 2
MaxActions == 2
MaxLit == 1

(***************************************************************************)
(* Output wranglers                                                        *)
(***************************************************************************)
logging_DEBUG == 10
logging_INFO == 20
logging_WARNING == 30
logging_ERROR == 40

ACTION_SUPPRESS == [k |-> "action", v |-> "SUPPRESS"]
ACTION_DECLARE_SUCCESS == [k |-> "action", v |-> "DECLARE_SUPPRESS"]
ACTION_DECLARE_FAILURE == [k |-> "action", v |-> "DECLARE_FAILURE"]

\* Cab.wrangler_actions: the logging levels plus the three symbolic actions
wrangler_actions(name) ==
    CASE name = "DEBUG" -> PyInt(logging_DEBUG)
      [] name = "INFO" -> PyInt(logging_INFO)
      [] name = "WARNING" -> PyInt(logging_WARNING)
      [] name = "ERROR" -> PyInt(logging_ERROR)
      [] name = "SUPPRESS" -> ACTION_SUPPRESS
      [] name = "DECLARE_SUCCESS" -> ACTION_DECLARE_SUCCESS
      [] name = "DECLARE_FAILURE" -> ACTION_DECLARE_FAILURE

\* An entry of management.wranglers[match]: an action name or "replace:<text>"
IsReplace(entry) == entry.replace # None

RECURSIVE last_replace(_, _)
\* the loop of Cab.__post_init__ over one rule's actions: the last "replace:" wins
last_replace(entries, replace) ==
    IF entries = <<>> THEN replace
    ELSE last_replace(Tail(entries),
                      IF IsReplace(Head(entries)) THEN Head(entries).replace ELSE replace)

RECURSIVE known_actions(_)
\* [self.wrangler_actions[act] for act in actions if act in self.wrangler_actions]
known_actions(entries) ==
    IF entries = <<>> THEN <<>>
    ELSE (IF IsReplace(Head(entries)) THEN <<>> ELSE <<wrangler_actions(Head(entries).name)>>)
         \o known_actions(Tail(entries))

\* Cab.__post_init__: management.wranglers compiled to (regex, replace, actions)
compile_wranglers(config) ==
    [i \in 1..Len(config) |->
        [regex |-> config[i].match,
         replace |-> last_replace(config[i].actions, None),
         actions |-> known_actions(config[i].actions)]]

\* regex.search(output) for a pattern that is one literal character
regex_search(regex, output) == \E i \in 1..Len(output) : output[i] = regex

RECURSIVE regex_sub(_, _, _)
\* regex.sub(replace, output): every match is replaced
regex_sub(regex, replace, output) ==
    IF output = <<>> THEN <<>>
    ELSE (IF Head(output) = regex THEN replace ELSE <<Head(output)>>)
         \o regex_sub(regex, replace, Tail(output))

FAILURE_MARK == "[FAILURE] "
SUCCESS_MARK == "[SUCCESS] "

\* the iteration with DECLARE_SUCCESS not guarded by the status
apply_action_noguard(st, action) ==
    IF action.k = "int" THEN [st EXCEPT !.severity = action.v]
    ELSE IF action = ACTION_SUPPRESS THEN [st EXCEPT !.suppress = TRUE]
    ELSE IF action = ACTION_DECLARE_FAILURE /\ st.status = None
        THEN [st EXCEPT !.status = PyBool(FALSE),
                        !.modified_output = <<FAILURE_MARK>> \o @,
                        !.severity = logging_ERROR]
    ELSE IF action = ACTION_DECLARE_SUCCESS
        THEN [st EXCEPT !.status = PyBool(TRUE),
                        !.modified_output = <<SUCCESS_MARK>> \o @]
    ELSE st

\* the iteration with the declarations skipped once suppression is requested
apply_action_masked(st, action) ==
    IF action.k = "int" THEN [st EXCEPT !.severity = action.v]
    ELSE IF action = ACTION_SUPPRESS THEN [st EXCEPT !.suppress = TRUE]
    ELSE IF action = ACTION_DECLARE_FAILURE /\ st.status = None /\ ~st.suppress
        THEN [st EXCEPT !.status = PyBool(FALSE),
                        !.modified_output = <<FAILURE_MARK>> \o @,
                        !.severity = logging_ERROR]
    ELSE IF action = ACTION_DECLARE_SUCCESS /\ st.status = None /\ ~st.suppress
        THEN [st EXCEPT !.status = PyBool(TRUE),
                        !.modified_output = <<SUCCESS_MARK>> \o @]
    ELSE st

\* one iteration of "for action in actions"
apply_action(st, action) ==
    IF action.k = "int" THEN [st EXCEPT !.severity = action.v]
    ELSE IF action = ACTION_SUPPRESS THEN [st EXCEPT !.suppress = TRUE]
    ELSE IF action = ACTION_DECLARE_FAILURE /\ st.status = None
        THEN [st EXCEPT !.status = PyBool(FALSE),
                        !.modified_output = <<FAILURE_MARK>> \o @,
                        !.severity = logging_ERROR]
    ELSE IF action = ACTION_DECLARE_SUCCESS /\ st.status = None
        THEN [st EXCEPT !.status = PyBool(TRUE),
                        !.modified_output = <<SUCCESS_MARK>> \o @]
    ELSE st

RECURSIVE apply_actions(_, _)
apply_actions(st, actions) ==
    IF actions = <<>> THEN st
    ELSE apply_actions(apply_action(st, Head(actions)), Tail(actions))

\* the iteration without the test of regex.search
apply_rule_unmatched(st, rule, output) ==
    apply_actions(
        IF rule.replace # None
        THEN [st EXCEPT !.modified_output = regex_sub(rule.regex, rule.replace.v, output)]
        ELSE st,
        rule.actions)

\* one iteration of "for regex, replace, actions in self._wranglers"
apply_rule(st, rule, output) ==
    IF regex_search(rule.regex, output)
    THEN apply_actions(
            IF rule.replace # None
            THEN [st EXCEPT !.modified_output = regex_sub(rule.regex, rule.replace.v, output)]
            ELSE st,
            rule.actions)
    ELSE st

RECURSIVE apply_rules(_, _, _)
apply_rules(st, rules, output) ==
    IF rules = <<>> THEN st
    ELSE apply_rules(apply_rule(st, Head(rules), output), Tail(rules), output)

\* Cab.apply_output_wranglers(output, severity) run from status: the locals at the return
wrangle(rules, status, output, severity) ==
    apply_rules([suppress |-> FALSE, modified_output |-> output,
                 severity |-> severity, status |-> status],
                rules, output)

\* the returned pair
wrangle_return(st) ==
    IF st.suppress THEN [line |-> None, severity |-> 0]
    ELSE [line |-> PyStr(st.modified_output), severity |-> st.severity]

(***************************************************************************)
(* Inputs of the wrangler specification                                    *)
(***************************************************************************)
Patterns == {"a", "b"}
LineChars == {"a", "b"}
Lines == UNION {[1..n -> LineChars] : n \in 1..MaxLineLen}
Severities == {logging_DEBUG, logging_INFO}

ActionEntry(name) == [name |-> name, replace |-> None]
ReplaceEntry(text) == [name |-> "replace:", replace |-> PyStr(text)]
Entries == {ActionEntry(n) : n \in {"WARNING", "SUPPRESS", "DECLARE_SUCCESS", "DECLARE_FAILURE"}}
           \cup {ReplaceEntry(<<"b">>)}
\* the action lists of a rule: no entry listed twice
EntryLists == UNION {{s \in [1..n -> Entries] : \A i, j \in 1..n : s[i] = s[j] => i = j}
                     : n \in 0..MaxActions}
\* management.wranglers: a mapping from pattern to actions, in declaration order
WranglerConfigs ==
    {<<>>}
    \cup {<<[match |-> p, actions |-> e]>> : p \in Patterns, e \in EntryLists}
    \cup {<<[match |-> "a", actions |-> e1], [match |-> "b", actions |-> e2]>>
            : e1 \in EntryLists, e2 \in {e \in EntryLists : Len(e) <= 1}}

Idle == [k |-> "idle", v |-> 0]

NoCall == [output |-> <<>>, severity |-> 0, before |-> None, locals |-> None, ret |-> None]

InitW ==
    /\ \E config \in WranglerConfigs : wranglers = compile_wranglers(config)
    /\ runtime_status = None
    /\ wr_call = NoCall
    /\ v_in = Idle /\ v_out = Idle /\ v_again = Idle
    /\ cab = Idle /\ cab_call = Idle

apply_output_wranglers(output, severity) ==
    LET st == wrangle(wranglers, runtime_status, output, severity) IN
    /\ runtime_status' = st.status
    /\ wr_call' = [output |-> output, severity |-> severity, before |-> runtime_status,
                   locals |-> st, ret |-> wrangle_return(st)]
    /\ UNCHANGED <<wranglers, v_in, v_out, v_again, cab, cab_call>>

reset_runtime_status ==
    /\ runtime_status' = None
    /\ UNCHANGED <<wranglers, wr_call, v_in, v_out, v_again, cab, cab_call>>

NextW ==
    \/ \E output \in Lines, severity \in Severities : apply_output_wranglers(output, severity)
    \/ reset_runtime_status

SpecW == InitW /\ [][NextW]_vars

(***************************************************************************)
(* validate_parameters: {}-substitution                                    *)
(***************************************************************************)
\* the replacement fields that occur in the modelled strings
RefTokens == {"{self.a}", "{self.b}", "{k}", "{cfg.m}"}
IsRef(tok) == tok \in RefTokens
\* a replacement field's first name and its attribute ("" when it has none)
RefInfo(tok) ==
    CASE tok = "{self.a}" -> [root |-> "self", attr |-> "a"]
      [] tok = "{self.b}" -> [root |-> "self", attr |-> "b"]
      [] tok = "{k}" -> [root |-> "k", attr |-> ""]
      [] tok = "{cfg.m}" -> [root |-> "cfg", attr |-> "m"]

RECURSIVE Digits(_)
\* str(n) of a non-negative int
Digits(n) == IF n < 10 THEN <<ToString(n)>> ELSE Digits(n \div 10) \o <<ToString(n % 10)>>

\* str(value) of a value that is no list
py_str_scalar(value) ==
    CASE value.k \in {"str", "err"} -> value.v
      [] value.k = "int" -> Digits(value.v)
      [] value.k = "bool" -> IF value.v THEN <<"T", "r", "u", "e">> ELSE <<"F", "a", "l", "s", "e">>
      [] value.k = "none" -> <<"N", "o", "n", "e">>
      [] value.k = "unres" -> <<"Unresolved(">> \o value.v \o <<")">>
      [] OTHER -> <<"{", "}">>

RECURSIVE py_repr_items(_)
\* the elements of the repr of a list of scalars
py_repr_items(items) ==
    IF items = <<>> THEN <<>>
    ELSE (IF IsStrLike(Head(items)) THEN <<"'">> \o Head(items).v \o <<"'">>
          ELSE py_str_scalar(Head(items)))
         \o (IF Len(items) > 1 THEN <<",", " ">> ELSE <<>>)
         \o py_repr_items(Tail(items))

\* str(value)
py_str(value) ==
    IF value.k = "list" THEN <<"[">> \o py_repr_items(value.v) \o <<"]">>
    ELSE py_str_scalar(value)

\* getattr(obj, attr) as str.format calls it: the value, or the exception raised
getattr(obj, attr) ==
    IF obj.k = "ns"
    \* SubstitutionNamespace.__getattr__, not forgiving
    THEN IF Has(obj.v, attr) THEN [exc |-> "", value |-> Get(obj.v, attr)]
         ELSE [exc |-> "AttributeError", key |-> attr]
    ELSE IF obj.k = "omegaconf" THEN [exc |-> "ConfigAttributeError", key |-> attr]
    ELSE [exc |-> "AttributeError", key |-> "no attribute '" \o attr \o "'"]

\* a replacement field looked up in subst1, which is subst with 'self' set to the mirror
get_field(ref, subst, self) ==
    IF ref.root # "self" /\ ~Has(subst, ref.root)
    THEN [exc |-> "KeyError", key |-> "'" \o ref.root \o "'"]
    ELSE IF ref.attr = "" THEN [exc |-> "", value |-> Get(subst, ref.root)]
    ELSE getattr(IF ref.root = "self" THEN [k |-> "ns", v |-> self] ELSE Get(subst, ref.root),
                 ref.attr)

\* a looked-up field rendered with an empty format spec
format_field(got) ==
    IF got.exc # "" THEN got ELSE [exc |-> "", text |-> py_str(got.value)]

\* two renderings in sequence: the first exception wins
format_join(left, right) ==
    IF left.exc # "" THEN left
    ELSE IF right.exc # "" THEN right
    ELSE [exc |-> "", text |-> left.text \o right.text]

RECURSIVE format_range(_, _, _, _, _)
\* the fields text[lo..hi] rendered left to right: the text, or the first exception
format_range(text, lo, hi, subst, self) ==
    IF lo > hi THEN [exc |-> "", text |-> <<>>]
    ELSE IF lo = hi
        THEN IF ~IsRef(text[lo]) THEN [exc |-> "", text |-> <<text[lo]>>]
             ELSE format_field(get_field(RefInfo(text[lo]), subst, self))
    ELSE format_join(format_range(text, lo, (lo + hi) \div 2, subst, self),
                     format_range(text, (lo + hi) \div 2 + 1, hi, subst, self))

\* value.format(**subst1): the text, or the exception raised
format(text, subst, self) == format_range(text, 1, Len(text), subst, self)

\* lines 142-149: newvalue, from what format did
substituted(r) ==
    IF r.exc = "" THEN PyStr(r.text)
    ELSE IF r.exc = "ConfigAttributeError" THEN Error(<<"ERR (" \o r.key \o ")">>)
    ELSE Error(<<r.key>>)

\* lines 143-149: what subst1_self[name] is set to
mirrored(r) ==
    IF r.exc = "" THEN PyStr(r.text)
    ELSE IF r.exc = "ConfigAttributeError" THEN PyStr(<<"ERR (" \o r.key \o ")">>)
    ELSE PyStr(<<"ERR">>)

\* the store that marks the change but leaves inputs[name] as it was
subst_store_unassigned(st, name, value, newvalue, mirror) ==
    IF newvalue.v # value.v
    THEN [st EXCEPT !.self = Set(st.self, name, mirror), !.changed = TRUE]
    ELSE [st EXCEPT !.self = Set(st.self, name, mirror)]

\* lines 143-152: the mirror and, if the value changed, inputs; st = [inputs, self, changed, ...]
subst_store(st, name, value, newvalue, mirror) ==
    IF newvalue.v # value.v
    THEN [st EXCEPT !.inputs = Set(st.inputs, name, newvalue),
                    !.self = Set(st.self, name, mirror), !.changed = TRUE]
    ELSE [st EXCEPT !.self = Set(st.self, name, mirror)]

subst_formatted(st, name, value, r) ==
    subst_store(st, name, value, substituted(r), mirrored(r))

\* lines 140-152 for one item of inputs
subst_one(st, subst, name, value) ==
    IF value.k # "str" THEN st
    ELSE subst_formatted(st, name, value, format(value.v, subst, st.self))

RECURSIVE subst_pass(_, _, _)
\* "for name, value in inputs.items()" from the i-th item on
subst_pass(st, subst, i) ==
    IF i > Len(st.inputs) THEN st
    ELSE subst_pass(subst_one(st, subst, st.inputs[i].name, st.inputs[i].value), subst, i + 1)

RecursionLimit == 10

\* lines 137-152: one pass, its "changed" appended to the record of the passes
record_pass(p) == [p EXCEPT !.changes = Append(@, p.changed)]
run_pass(st, subst) == record_pass(subst_pass([st EXCEPT !.changed = FALSE], subst, 1))

RECURSIVE subst_loop_eleven(_, _, _)
\* the loop that allows one more pass
subst_loop_eleven(st, subst, i) ==
    IF i > 0 /\ ~st.changed THEN st
    ELSE IF i > RecursionLimit THEN [st EXCEPT !.exhausted = TRUE]
    ELSE subst_loop_eleven(run_pass(st, subst), subst, i + 1)

RECURSIVE subst_loop(_, _, _)
\* "for i in range(10): ... if not changed: break ... else: raise", after i passes
subst_loop(st, subst, i) ==
    IF i > 0 /\ ~st.changed THEN st
    ELSE IF i >= RecursionLimit THEN [st EXCEPT !.exhausted = TRUE]
    ELSE subst_loop(run_pass(st, subst), subst, i + 1)

\* lines 132-156: the resolver with a namespace; changes records each pass's "changed"
substitute(inputs, subst) ==
    subst_loop([inputs |-> inputs, self |-> inputs, changed |-> FALSE,
                changes |-> <<>>, exhausted |-> FALSE], subst, 0)

\* re.search("{[^{]", value)
has_field(text) == \E i \in 1..Len(text) : IsRef(text[i])

RECURSIVE set_aside(_, _, _)
\* lines 159-162: without a namespace, templates move to the unresolved dict
set_aside(items, inputs, unresolved) ==
    IF items = <<>> THEN [inputs |-> inputs, unresolved |-> unresolved]
    ELSE IF Head(items).value.k = "str" /\ has_field(Head(items).value.v)
        THEN set_aside(Tail(items),
                       SelectSeq(inputs, LAMBDA e : e.name # Head(items).name),
                       Set(unresolved, Head(items).name, Unresolved(Head(items).value.v)))
    ELSE set_aside(Tail(items), inputs, unresolved)

(***************************************************************************)
(* validate_parameters: defaults, required, files, types, choices          *)
(***************************************************************************)
\* a Parameter schema as validate_parameters reads it. The dataclass declares no
\* "default" field: reading schema.default raises AttributeError
Parameter(dtype, required, choices) ==
    [dtype |-> dtype, required |-> required, choices |-> choices]

RECURSIVE first_unknown(_, _)
\* lines 111-114: the first name of params that is not in schemas, or ""
first_unknown(params, schemas) ==
    IF params = <<>> THEN ""
    ELSE IF ~Has(schemas, Head(params).name) THEN Head(params).name
    ELSE first_unknown(Tail(params), schemas)

RECURSIVE no_default(_, _, _)
\* lines 122-126: the first schema entry for which line 126 is reached (no value in
\* inputs, no entry in defaults), or "". There the read of schema.default raises
\* AttributeError. An entry's test reads only its own name, which no earlier turn
\* of the loop assigns.
no_default(inputs, schemas, defaults) ==
    IF schemas = <<>> THEN ""
    ELSE IF Get(inputs, Head(schemas).name) = None /\ ~Has(defaults, Head(schemas).name)
        THEN Head(schemas).name
    ELSE no_default(inputs, Tail(schemas), defaults)

\* lines 123-125 for one schema entry
add_default(inputs, name, defaults) ==
    IF Get(inputs, name) # None THEN inputs
    ELSE IF Has(defaults, name) THEN Set(inputs, name, Get(defaults, name))
    ELSE inputs

RECURSIVE add_defaults(_, _, _)
\* lines 122-125
add_defaults(inputs, schemas, defaults) ==
    IF schemas = <<>> THEN inputs
    ELSE add_defaults(add_default(inputs, Head(schemas).name, defaults),
                      Tail(schemas), defaults)

\* line 166
missing_required(inputs, unresolved, schemas) ==
    Keys(SelectSeq(schemas, LAMBDA e : e.value.required /\ Get(inputs, e.name) = None
                                        /\ ~Has(unresolved, e.name)))

\* the file system: the paths that are regular files, and those that are directories
RegularFiles == {<<"1">>}
Directories == {}
isfile(path) == path \in RegularFiles
isdir(path) == path \in Directories
\* glob.glob(pattern) for a pattern without wildcards
glob(pattern) == IF isfile(pattern) \/ isdir(pattern) THEN <<PyStr(pattern)>> ELSE <<>>
\* yaml.safe_load(value) when it is a list: a flow sequence needs "[", which no
\* modelled string holds, so the load never yields a list
yaml_list(text) == None

FileTypes == {"File", "Directory", "MS"}
FileListTypes == {"List[File]", "List[Directory]", "List[MS]"}

\* lines 208-222: the files a value names
files_of(value, expand_globs) ==
    IF value.k = "list" THEN value.v
    ELSE IF yaml_list(value.v) # None THEN yaml_list(value.v).v
    ELSE IF expand_globs THEN glob(value.v)
    ELSE <<value>>

all_isfile(files) == \A i \in 1..Len(files) : files[i].k = "str" /\ isfile(files[i].v)
all_isdir(files) == \A i \in 1..Len(files) : files[i].k = "str" /\ isdir(files[i].v)

\* lines 224-261: the new inputs[name], or the error raised
check_files(value, files, schema, check_exist) ==
    IF files = <<>>
    THEN IF schema.required /\ check_exist
         THEN [error |-> "no files found", value |-> value]
         ELSE [error |-> "",
               value |-> IF schema.dtype \in FileListTypes THEN PyList(<<>>) ELSE PyStr(<<>>)]
    ELSE IF schema.dtype \in FileTypes
        THEN IF Len(files) > 1 THEN [error |-> "multiple files given", value |-> value]
             ELSE IF check_exist /\ schema.dtype = "File" /\ ~all_isfile(files)
                THEN [error |-> "is not a regular file", value |-> value]
             ELSE IF check_exist /\ schema.dtype # "File" /\ ~all_isdir(files)
                THEN [error |-> "is not a directory", value |-> value]
             ELSE [error |-> "", value |-> files[1]]
    ELSE IF check_exist /\ schema.dtype = "List[File]" /\ ~all_isfile(files)
        THEN [error |-> "matches non-files", value |-> value]
    ELSE IF check_exist /\ schema.dtype # "List[File]" /\ ~all_isdir(files)
        THEN [error |-> "matches non-directories", value |-> value]
    ELSE [error |-> "", value |-> PyList(files)]

\* lines 195-261 for one item of inputs whose name is in schemas
check_item(value, schema, check_exist, expand_globs) ==
    \* "skip errors"
    IF value = None \/ value.k = "err" THEN [error |-> "", value |-> value]
    ELSE IF schema.dtype \notin FileTypes \cup FileListTypes THEN [error |-> "", value |-> value]
    ELSE IF value.k \notin {"str", "list"} THEN [error |-> "invalid type", value |-> value]
    ELSE check_files(value, files_of(value, expand_globs), schema, check_exist)

RECURSIVE file_loop(_, _, _, _, _)
\* lines 193-261: "for name, value in inputs.items()" from the i-th item on
file_loop(inputs, schemas, check_exist, expand_globs, i) ==
    IF i > Len(inputs) THEN [error |-> "", name |-> "", inputs |-> inputs]
    ELSE IF ~Has(schemas, inputs[i].name)
        THEN file_loop(inputs, schemas, check_exist, expand_globs, i + 1)
    ELSE IF check_item(inputs[i].value, Get(schemas, inputs[i].name),
                       check_exist, expand_globs).error # ""
        THEN [error |-> check_item(inputs[i].value, Get(schemas, inputs[i].name),
                                   check_exist, expand_globs).error,
              name |-> inputs[i].name, inputs |-> inputs]
    ELSE file_loop(Set(inputs, inputs[i].name,
                       check_item(inputs[i].value, Get(schemas, inputs[i].name),
                                  check_exist, expand_globs).value),
                   schemas, check_exist, expand_globs, i + 1)

DigitTokens == {"0", "1", "2", "3", "4", "5", "6", "7", "8", "9"}
DigitValue(tok) == CHOOSE n \in 0..9 : ToString(n) = tok
RECURSIVE int_of(_, _)
\* int(text) for a text of decimal digits
int_of(text, acc) ==
    IF text = <<>> THEN acc ELSE int_of(Tail(text), acc * 10 + DigitValue(Head(text)))

\* pydantic's str_validator: a str (or subclass) as it is, an int as its str
str_validator(value) ==
    IF IsStrLike(value) THEN [bad |-> FALSE, value |-> value]
    ELSE IF value.k = "int" THEN [bad |-> FALSE, value |-> PyStr(Digits(value.v))]
    ELSE [bad |-> TRUE, value |-> value]

\* pydantic's int_validator: an int as it is, else int(value)
int_validator(value) ==
    IF value.k = "int" THEN [bad |-> FALSE, value |-> value]
    ELSE IF IsStrLike(value) /\ value.v # <<>>
            /\ \A i \in 1..Len(value.v) : value.v[i] \in DigitTokens
        THEN [bad |-> FALSE, value |-> PyInt(int_of(value.v, 0))]
    ELSE [bad |-> TRUE, value |-> value]

\* the validated items of a list, one more appended
items_join(h, t) == [bad |-> h.bad \/ t.bad, value |-> PyList(<<h.value>> \o t.value.v)]

RECURSIVE all_str_validator(_)
\* the items of a List[...] of str-like element types, each through str_validator
all_str_validator(items) ==
    IF items = <<>> THEN [bad |-> FALSE, value |-> PyList(<<>>)]
    ELSE items_join(str_validator(Head(items)), all_str_validator(Tail(items)))

\* pydantic's validator of one field: the coerced value, or bad
pydantic_field(dtype, value) ==
    IF dtype \in {"str"} \cup FileTypes THEN str_validator(value)
    ELSE IF dtype = "int" THEN int_validator(value)
    ELSE IF value.k = "list" THEN all_str_validator(value.v)
    ELSE [bad |-> TRUE, value |-> value]

\* one field's outcome put before the outcome of the fields after it
field_join(name, f, rest) ==
    IF f.bad THEN [rest EXCEPT !.errors = <<name>> \o @]
    ELSE [rest EXCEPT !.validated = <<Item(name, f.value)>> \o @]

RECURSIVE pydantic_validate(_, _)
\* lines 174-181, 187-190, 264-270: pcls(**inputs) and asdict, in the order of the dataclass
\* fields, which is the order of schemas; errors collects the failing fields
pydantic_validate(schemas, inputs) ==
    IF schemas = <<>> THEN [errors |-> <<>>, validated |-> <<>>]
    ELSE IF Get(inputs, Head(schemas).name) = None THEN pydantic_validate(Tail(schemas), inputs)
    ELSE field_join(Head(schemas).name,
                    pydantic_field(Head(schemas).value.dtype, Get(inputs, Head(schemas).name)),
                    pydantic_validate(Tail(schemas), inputs))

\* Python's ==
py_eq(x, y) ==
    IF IsStrLike(x) /\ IsStrLike(y) THEN x.v = y.v
    ELSE x.k = y.k /\ x.v = y.v

\* not (schema.choices and value not in schema.choices)
choice_ok(schema, value) ==
    schema.choices = <<>> \/ \E i \in 1..Len(schema.choices) : py_eq(value, schema.choices[i])

RECURSIVE first_bad_choice(_, _)
\* lines 273-276: the first validated name whose value is not among its choices, or ""
first_bad_choice(validated, schemas) ==
    IF validated = <<>> THEN ""
    ELSE IF ~choice_ok(Get(schemas, Head(validated).name), Head(validated).value)
        THEN Head(validated).name
    ELSE first_bad_choice(Tail(validated), schemas)

\* What a call raised or returned. "resolved" (inputs as the resolver left them) and
\* "changes" (each pass's "changed") record the resolver's work for the properties below.
Raised(error, names, sub) ==
    [error |-> error, names |-> names, value |-> <<>>,
     resolved |-> sub.inputs, changes |-> sub.changes]
Returned(value, sub) ==
    [error |-> "", names |-> <<>>, value |-> value,
     resolved |-> sub.inputs, changes |-> sub.changes]
NotResolved == [inputs |-> <<>>, changes |-> <<>>]

\* lines 272-289: the choice check, then the unresolved values merged in
choices_stage(validated, bad_choice, sub) ==
    IF bad_choice # "" THEN Raised("invalid value", <<bad_choice>>, sub)
    ELSE Returned(Update(validated, sub.unresolved), sub)

\* lines 263-270
types_stage(typed, schemas, sub) ==
    IF typed.errors # <<>> THEN Raised("validation error", typed.errors, sub)
    ELSE choices_stage(typed.validated, first_bad_choice(typed.validated, schemas), sub)

\* lines 192-261
files_stage(filed, schemas, sub) ==
    IF filed.error # "" THEN Raised(filed.error, <<filed.name>>, sub)
    ELSE types_stage(pydantic_validate(schemas, filed.inputs), schemas, sub)

\* lines 153-168: the outcome of the resolver, then the required parameters
resolved_stage(sub, schemas, check_required, check_exist, expand_globs) ==
    IF sub.exhausted THEN Raised("recursion limit exceeded", <<>>, sub)
    ELSE IF check_required /\ missing_required(sub.inputs, sub.unresolved, schemas) # <<>>
        THEN Raised("missing required parameters",
                    missing_required(sub.inputs, sub.unresolved, schemas), sub)
    ELSE files_stage(file_loop(sub.inputs, schemas, check_exist, expand_globs, 1),
                     schemas, sub)

\* the resolver's outcome beside the unresolved dict, which it leaves alone
with_unresolved(sub, unresolved) ==
    [inputs |-> sub.inputs, unresolved |-> unresolved,
     changes |-> sub.changes, exhausted |-> sub.exhausted]

\* the outcome of setting templates aside: no pass is made
without_passes(aside) ==
    [inputs |-> aside.inputs, unresolved |-> aside.unresolved,
     changes |-> <<>>, exhausted |-> FALSE]

\* lines 130-162
resolve(inputs, unresolved, subst) ==
    IF subst # None THEN with_unresolved(substitute(inputs, subst.v), unresolved)
    ELSE without_passes(set_aside(inputs, inputs, unresolved))

\* lines 116-168: the defaults added, or the AttributeError of line 126 for the
\* entry "undeclared"; then the resolver and the required parameters
defaults_stage(params, schemas, subst, defaults, check_required, check_exist, expand_globs, undeclared) ==
    IF undeclared # "" THEN Raised("AttributeError", <<undeclared>>, NotResolved)
    ELSE resolved_stage(
            resolve(add_defaults(SelectSeq(params, LAMBDA e : e.value.k # "unres"),
                                 schemas, defaults),
                    SelectSeq(params, LAMBDA e : e.value.k = "unres"),
                    subst),
            schemas, check_required, check_exist, expand_globs)

\* validate_parameters, with create_dirs at its default (False): what it returns or raises.
\* subst is None when no namespace is given.
validate_parameters(params, schemas, subst, defaults, check_unknowns, check_required, check_exist, expand_globs) ==
    IF check_unknowns /\ first_unknown(params, schemas) # ""
    THEN Raised("unknown parameter", <<first_unknown(params, schemas)>>, NotResolved)
    ELSE defaults_stage(params, schemas, subst, defaults, check_required, check_exist, expand_globs,
                        no_default(SelectSeq(params, LAMBDA e : e.value.k # "unres"), schemas, defaults))

(***************************************************************************)
(* Inputs of the validate_parameters specification                         *)
(***************************************************************************)
PyDict(d) == [k |-> "dict", v |-> d]
Absent == [k |-> "absent", v |-> 0]

LitChars == {"1"}
Lits == UNION {[1..n -> LitChars] : n \in 0..MaxLit}
\* literal text followed by at most one replacement field
Templates == {l \o r : l \in Lits, r \in {<<>>} \cup {<<t>> : t \in RefTokens}}

ValuesA == {Absent, PyInt(1)} \cup {PyStr(t) : t \in Templates}
ValuesB == {Absent, PyList(<<PyStr(<<"y">>)>>), Unresolved(<<"{k}">>)}
           \cup {PyStr(t) : t \in Templates}
\* a dict of the entries that are present, in the given order
DictOf(entries) == SelectSeq(entries, LAMBDA e : e.value # Absent)
ParamDicts == {DictOf(<<Item("a", va), Item("b", vb)>>) : va \in ValuesA, vb \in ValuesB}
              \cup {DictOf(<<Item("b", vb), Item("a", va)>>) : va \in ValuesA, vb \in ValuesB}

SchemasA == {Parameter(d, FALSE, c) : d \in {"str", "int"}, c \in {<<>>, <<PyStr(<<"1">>)>>}}
SchemasB == {Absent} \cup {Parameter(d, r, <<>>) : d \in {"str", "File"}, r \in BOOLEAN}
SchemaDicts == {DictOf(<<Item("a", sa), Item("b", sb)>>) : sa \in SchemasA, sb \in SchemasB}

Namespaces == {None, PyDict(<<>>),
               PyDict(<<Item("k", PyStr(<<"1">>)), Item("cfg", DictConfig(<<>>))>>)}
\* no defaults, a default for b, and a default that is null
DefaultDicts == {<<>>, <<Item("b", PyStr(<<"1">>))>>, <<Item("b", None)>>}
Flags(u, r, e, g) ==
    [check_unknowns |-> u, check_required |-> r, check_exist |-> e, expand_globs |-> g]
\* the defaults, and each flag switched off alone
FlagSets == {Flags(TRUE, TRUE, TRUE, TRUE), Flags(FALSE, TRUE, TRUE, TRUE),
             Flags(TRUE, FALSE, TRUE, TRUE), Flags(TRUE, TRUE, FALSE, TRUE),
             Flags(TRUE, TRUE, TRUE, FALSE)}

\* An argument that decides nothing is left at its default: a flag is switched off
\* only where its check has something to check, and defaults are given only where
\* they are consulted
Relevant(params, schemas, defaults, flags) ==
    /\ flags.check_unknowns \/ \E i \in 1..Len(params) : ~Has(schemas, params[i].name)
    /\ flags.check_required \/ \E i \in 1..Len(schemas) : schemas[i].value.required
    /\ (flags.check_exist /\ flags.expand_globs)
        \/ \E i \in 1..Len(schemas) : schemas[i].value.dtype \in FileTypes
    /\ defaults = <<>>
        \/ \E i \in 1..Len(defaults) :
            /\ Has(schemas, defaults[i].name)
            /\ Get(params, defaults[i].name).k \in {"none", "unres"}

InitV ==
    /\ \E params \in ParamDicts, schemas \in SchemaDicts, subst \in Namespaces,
          defaults \in DefaultDicts, flags \in FlagSets :
            /\ Relevant(params, schemas, defaults, flags)
            /\ v_in = [params |-> params, schemas |-> schemas, subst |-> subst,
                       defaults |-> defaults, flags |-> flags]
    /\ v_out = Idle /\ v_again = Idle
    /\ wranglers = <<>> /\ runtime_status = None /\ wr_call = NoCall
    /\ cab = Idle /\ cab_call = Idle

\* validate_parameters on params, with the other arguments of v_in
call_validate(params) ==
    validate_parameters(params, v_in.schemas, v_in.subst, v_in.defaults,
                        v_in.flags.check_unknowns, v_in.flags.check_required,
                        v_in.flags.check_exist, v_in.flags.expand_globs)

Validate ==
    /\ v_out = Idle
    /\ v_out' = call_validate(v_in.params)
    /\ UNCHANGED <<v_in, v_again, wranglers, runtime_status, wr_call, cab, cab_call>>

\* the caller validates the returned mapping once more, with the same arguments
ValidateAgain ==
    /\ v_out # Idle /\ v_out.error = "" /\ v_again = Idle
    /\ v_again' = call_validate(v_out.value)
    /\ UNCHANGED <<v_in, v_out, wranglers, runtime_status, wr_call, cab, cab_call>>

NextV == Validate \/ ValidateAgain

SpecV == InitV /\ [][NextV]_vars

(***************************************************************************)
(* Cab: validate, update_parameter, build_argument_list                    *)
(***************************************************************************)
\* ParameterPolicies(): the defaults of the dataclass
ParameterPolicies ==
    [positional |-> None, positional_head |-> None, repeat |-> None, prefix |-> None,
     skip |-> PyBool(FALSE), skip_implicits |-> PyBool(TRUE),
     split |-> None, format |-> None, format_list |-> None]

\* a Parameter of a cab: the fields validate_parameters reads, and those the cab reads
CabParameter(dtype, required, implicit, policies) ==
    [dtype |-> dtype, required |-> required, choices |-> <<>>,
     implicit |-> implicit, alias |-> PyStr(<<>>), policies |-> policies]

\* Python's truth value
truthy(value) ==
    CASE value.k = "none" -> FALSE
      [] value.k = "bool" -> value.v
      [] value.k = "int" -> value.v # 0
      [] value.k \in {"str", "err", "list"} -> value.v # <<>>
      [] OTHER -> TRUE

\* get_policy(schema, policy); policies is self.policies
get_policy(schema, policies, policy) ==
    IF schema.policies[policy] # None THEN schema.policies[policy] ELSE policies[policy]

\* what a step of build_argument_list yields: a value, or the exception raised
Ok(value) == [exc |-> "", value |-> value]
Exc(exc) == [exc |-> exc, value |-> None]

\* the replacement fields of a format policy: positional and keyword
PosFields == {"{0}", "{1}"}
FieldIndex(tok) == IF tok = "{0}" THEN 1 ELSE 2
NamedFields == {"{x}", "{y}", "{z}"}
FieldName(tok) == CASE tok = "{x}" -> "x" [] tok = "{y}" -> "y" [] tok = "{z}" -> "z"

\* one piece of fmt rendered
format_piece(tok, args, kwargs) ==
    IF tok \in PosFields
    THEN IF FieldIndex(tok) <= Len(args) THEN Ok(py_str(args[FieldIndex(tok)]))
         ELSE Exc("IndexError")
    ELSE IF tok \in NamedFields
        THEN IF Has(kwargs, FieldName(tok)) THEN Ok(py_str(Get(kwargs, FieldName(tok))))
             ELSE Exc("KeyError")
    ELSE Ok(<<tok>>)

\* a rendered piece before the rendered rest: the first exception wins
piece_join(left, right) ==
    IF left.exc # "" THEN left
    ELSE IF right.exc # "" THEN right
    ELSE Ok(left.value \o right.value)

RECURSIVE format_args(_, _, _)
\* fmt.format(*args, **kwargs): the text, or the exception raised
format_args(fmt, args, kwargs) ==
    IF fmt = <<>> THEN Ok(<<>>)
    ELSE piece_join(format_piece(Head(fmt), args, kwargs),
                    format_args(Tail(fmt), args, kwargs))

\* a formatted element before the formatted rest
element_join(left, right) ==
    IF left.exc # "" THEN left
    ELSE IF right.exc # "" THEN right
    ELSE Ok(PyList(<<PyStr(left.value)>> \o right.value.v))

RECURSIVE format_all(_, _, _)
\* [fmts[i].format(*argss[i], **value_dict) for i]: the list comprehensions of
\* lines 302, 304 and 309
format_all(fmts, argss, value_dict) ==
    IF fmts = <<>> THEN Ok(PyList(<<>>))
    ELSE element_join(format_args(Head(fmts).v, Head(argss), value_dict),
                      format_all(Tail(fmts), Tail(argss), value_dict))

\* value.split(sep), from the piece cur on
RECURSIVE split(_, _, _)
split(text, sep, cur) ==
    IF text = <<>> THEN <<PyStr(cur)>>
    ELSE IF Head(text) = sep THEN <<PyStr(cur)>> \o split(Tail(text), sep, <<>>)
    ELSE split(Tail(text), sep, Append(cur, Head(text)))

RECURSIVE join(_, _)
\* sep.join(items)
join(sep, items) ==
    IF items = <<>> THEN <<>>
    ELSE IF Len(items) = 1 THEN items[1].v
    ELSE items[1].v \o sep \o join(sep, Tail(items))

\* hasattr(value, '__iter__') and type(value) is not str
is_iterable(value) == value.k \in {"list", "err", "dict"}
\* the elements an iterable value yields: an Error is a str, and yields its characters
elements(value) ==
    IF value.k = "list" THEN value.v ELSE [i \in 1..Len(value.v) |-> PyStr(<<value.v[i]>>)]

\* lines 316-330: the returned representation
represent(name, value, is_list, option, repeat_policy) ==
    IF ~is_list
    THEN Ok(PyList(IF option # None THEN <<option, value>> ELSE <<value>>))
    ELSE IF repeat_policy = PyStr(<<"list">>)
        THEN Ok(PyList(IF option # None THEN <<option>> \o value.v ELSE value.v))
    ELSE IF repeat_policy = PyStr(<<"repeat">>)
        \* itertools.chain is given one iterable, the generator: it yields the pairs
        THEN Ok(PyList(IF option # None
                       THEN [i \in 1..Len(value.v) |-> PyList(<<option, value.v[i]>>)]
                       ELSE value.v))
    ELSE IF repeat_policy.k = "str"
        THEN Ok(IF option # None
                THEN PyList(<<option, PyStr(join(repeat_policy.v, value.v))>>)
                ELSE PyStr(join(repeat_policy.v, value.v)))
    ELSE IF repeat_policy = None THEN Exc("TypeError: no repeat policy")
    ELSE Exc("TypeError: unknown repeat policy")

\* lines 297-314: the formatting policies applied
formatted(name, value, is_list, option, schema, policies, value_dict) ==
    IF is_list
    THEN IF truthy(get_policy(schema, policies, "format_list"))
         THEN IF Len(get_policy(schema, policies, "format_list").v) # Len(elements(value))
              THEN Exc("SchemaError")
              ELSE format_all(get_policy(schema, policies, "format_list").v,
                              [i \in 1..Len(elements(value)) |-> elements(value)],
                              value_dict)
         ELSE IF truthy(get_policy(schema, policies, "format"))
             THEN format_all([i \in 1..Len(elements(value)) |->
                                get_policy(schema, policies, "format")],
                             [i \in 1..Len(elements(value)) |-> <<elements(value)[i]>>],
                             value_dict)
         ELSE Ok(PyList([i \in 1..Len(elements(value)) |-> PyStr(py_str(elements(value)[i]))]))
    ELSE IF truthy(get_policy(schema, policies, "format_list"))
        THEN format_all(get_policy(schema, policies, "format_list").v,
                        [i \in 1..Len(get_policy(schema, policies, "format_list").v) |->
                            <<value>>],
                        value_dict)
    ELSE IF truthy(get_policy(schema, policies, "format"))
        THEN (IF format_args(get_policy(schema, policies, "format").v, <<value>>, value_dict).exc # ""
              THEN format_args(get_policy(schema, policies, "format").v, <<value>>, value_dict)
              ELSE Ok(PyStr(format_args(get_policy(schema, policies, "format").v,
                                        <<value>>, value_dict).value)))
    ELSE Ok(PyStr(py_str(value)))

\* lines 297-330, from the formatted value on
stringify_formatted(name, f, is_list, option, schema, policies) ==
    IF f.exc # "" THEN f
    ELSE represent(name, f.value, is_list \/ f.value.k = "list", option,
                   get_policy(schema, policies, "repeat"))

\* stringify_argument(name, value, schema, option): None, a list or a str, or the
\* exception raised
stringify_argument(name, value, schema, option, policies, value_dict) ==
    IF value = None THEN Ok(None)
    ELSE IF schema.dtype = "bool" /\ ~truthy(value) THEN Ok(None)
    ELSE IF value.k = "str" /\ truthy(get_policy(schema, policies, "split"))
        THEN stringify_formatted(name,
                formatted(name, PyList(split(value.v, get_policy(schema, policies, "split").v[1], <<>>)),
                          TRUE, option, schema, policies, value_dict),
                TRUE, option, schema, policies)
    ELSE stringify_formatted(name,
            formatted(name, value, is_iterable(value), option, schema, policies, value_dict),
            is_iterable(value), option, schema, policies)

\* get_policy(schema, 'skip') or (schema.implicit and get_policy(schema, 'skip_implicits'))
skip(schema, policies) ==
    \/ truthy(get_policy(schema, policies, "skip"))
    \/ truthy(schema.implicit) /\ truthy(get_policy(schema, policies, "skip_implicits"))

\* get_policy(schema, 'positional') or positional_first
positional(schema, policies) ==
    \/ truthy(get_policy(schema, policies, "positional"))
    \/ truthy(get_policy(schema, policies, "positional_head"))

\* "if type(value) is list: pargs += value; elif value is not None: pargs.append(value)"
extended(pargs, value) ==
    IF value.k = "list" THEN pargs \o value.v
    ELSE IF value # None THEN Append(pargs, value)
    ELSE pargs

\* lines 343-351 for a positional parameter; st = [exc, value_dict, head, tail]
collect_positional(st, name, schema, policies, s) ==
    IF s.exc # "" THEN [st EXCEPT !.exc = s.exc]
    ELSE IF truthy(get_policy(schema, policies, "positional_head"))
        THEN [st EXCEPT !.head = extended(@, s.value),
                        !.value_dict = SelectSeq(@, LAMBDA e : e.name # name)]
    ELSE [st EXCEPT !.tail = extended(@, s.value),
                    !.value_dict = SelectSeq(@, LAMBDA e : e.name # name)]

\* lines 337-351 for one entry of inputs_outputs
positional_step(st, name, schema, policies) ==
    IF schema.required /\ ~Has(st.value_dict, name)
    THEN [st EXCEPT !.exc = "RuntimeError: required parameter is missing"]
    ELSE IF ~Has(st.value_dict, name) \/ ~positional(schema, policies) THEN st
    ELSE collect_positional(st, name, schema, policies,
            IF skip(schema, policies) THEN Ok(None)
            ELSE stringify_argument(name, Get(st.value_dict, name), schema, None,
                                    policies, st.value_dict))

RECURSIVE positional_loop(_, _, _, _)
\* lines 336-351: "for name, schema in self.inputs_outputs.items()" from the i-th on
positional_loop(st, inputs_outputs, policies, i) ==
    IF i > Len(inputs_outputs) \/ st.exc # "" THEN st
    ELSE positional_loop(
            positional_step(st, inputs_outputs[i].name, inputs_outputs[i].value, policies),
            inputs_outputs, policies, i + 1)

\* line 365
option_of(name, schema, policies) ==
    PyStr((IF truthy(get_policy(schema, policies, "prefix"))
           THEN get_policy(schema, policies, "prefix").v ELSE <<"--">>)
          \o (IF truthy(schema.alias) THEN schema.alias.v ELSE <<name>>))

\* lines 371-375; st = [exc, args]
collect_optional(st, s) ==
    IF s.exc # "" THEN [st EXCEPT !.exc = s.exc]
    ELSE [st EXCEPT !.args = extended(@, s.value)]

\* lines 357-375 for one item of value_dict
optional_step(st, name, value, inputs_outputs, policies, value_dict) ==
    IF ~Has(inputs_outputs, name)
    THEN [st EXCEPT !.exc = "RuntimeError: unknown parameter"]
    ELSE IF skip(Get(inputs_outputs, name), policies) THEN st
    ELSE IF Get(inputs_outputs, name).dtype = "bool" /\ truthy(value)
        THEN [st EXCEPT !.args = Append(@, option_of(name, Get(inputs_outputs, name), policies))]
    ELSE collect_optional(st,
            stringify_argument(name, value, Get(inputs_outputs, name),
                               option_of(name, Get(inputs_outputs, name), policies),
                               policies, value_dict))

RECURSIVE optional_loop(_, _, _, _, _)
\* lines 356-375: "for name, value in value_dict.items()" from the i-th item on
optional_loop(st, value_dict, inputs_outputs, policies, i) ==
    IF i > Len(value_dict) \/ st.exc # "" THEN st
    ELSE optional_loop(
            optional_step(st, value_dict[i].name, value_dict[i].value,
                          inputs_outputs, policies, value_dict),
            value_dict, inputs_outputs, policies, i + 1)

\* lines 353-377, from the collected positionals on
arguments_after(pos, inputs_outputs, policies) ==
    IF pos.exc # "" THEN [exc |-> pos.exc, args |-> <<>>]
    ELSE IF optional_loop([exc |-> "", args |-> <<>>], pos.value_dict,
                          inputs_outputs, policies, 1).exc # ""
        THEN [exc |-> optional_loop([exc |-> "", args |-> <<>>], pos.value_dict,
                                    inputs_outputs, policies, 1).exc,
              args |-> <<>>]
    ELSE [exc |-> "",
          args |-> pos.head
                   \o optional_loop([exc |-> "", args |-> <<>>], pos.value_dict,
                                    inputs_outputs, policies, 1).args
                   \o pos.tail]

\* the positionals collected from params
positionals_of(params, inputs_outputs, policies) ==
    positional_loop([exc |-> "", value_dict |-> params, head |-> <<>>, tail |-> <<>>],
                    inputs_outputs, policies, 1)

\* Cab.build_argument_list() of a cab with these params: the list returned, or the
\* exception raised
argument_list(params, inputs_outputs, policies) ==
    arguments_after(positionals_of(params, inputs_outputs, policies),
                    inputs_outputs, policies)

(***************************************************************************)
(* Inputs of the cab specification                                         *)
(***************************************************************************)
\* the task-level policies
TaskPolicies ==
    {ParameterPolicies,
     [ParameterPolicies EXCEPT !.skip = PyBool(TRUE)],
     [ParameterPolicies EXCEPT !.skip_implicits = PyBool(FALSE)],
     [ParameterPolicies EXCEPT !.repeat = PyStr(<<"list">>)],
     [ParameterPolicies EXCEPT !.prefix = PyStr(<<"-">>)]}

\* x is a list of strings
PoliciesX ==
    {ParameterPolicies,
     [ParameterPolicies EXCEPT !.repeat = PyStr(<<"list">>)],
     [ParameterPolicies EXCEPT !.repeat = PyStr(<<"repeat">>)],
     [ParameterPolicies EXCEPT !.repeat = PyStr(<<",">>)],
     [ParameterPolicies EXCEPT !.repeat = PyStr(<<"list">>), !.format = PyStr(<<"{0}", "!">>)],
     [ParameterPolicies EXCEPT !.skip = PyBool(TRUE)]}
ParametersX == {CabParameter("List[str]", FALSE, None, pol) : pol \in PoliciesX}

\* y is an int: not declared, declared, or declared implicit
ParametersY ==
    {Absent, CabParameter("int", FALSE, None, ParameterPolicies),
     CabParameter("int", FALSE, PyStr(<<"v">>), ParameterPolicies)}

\* z is a str: an option, a positional (required or not), or a head positional
PoliciesZ ==
    {ParameterPolicies,
     [ParameterPolicies EXCEPT !.positional = PyBool(TRUE)],
     [ParameterPolicies EXCEPT !.positional_head = PyBool(TRUE)],
     [ParameterPolicies EXCEPT !.split = PyStr(<<",">>), !.repeat = PyStr(<<"list">>)]}
ParametersZ ==
    {CabParameter("str", FALSE, None, pol) : pol \in PoliciesZ}
    \cup {CabParameter("str", TRUE, None, [ParameterPolicies EXCEPT !.positional = PyBool(TRUE)])}

\* inputs then outputs
CabSchemas ==
    {DictOf(<<Item("x", px), Item("y", py), Item("z", pz)>>)
        : px \in ParametersX, py \in ParametersY, pz \in ParametersZ}

\* the params a caller validates
CabValuesX == {Absent, PyList(<<PyInt(1), PyInt(2)>>)}
CabValuesY == {Absent, PyInt(1), PyStr(<<"{k}">>)}
CabValuesZ == {Absent, PyStr(<<"3", ",", "4">>)}
CabParamDicts ==
    {DictOf(<<Item("x", vx), Item("y", vy), Item("z", vz)>>)
        : vx \in CabValuesX, vy \in CabValuesY, vz \in CabValuesZ}
CabNamespaces == {None, PyDict(<<Item("k", PyStr(<<"1">>))>>)}

\* the values a caller sets with update_parameter
Updates ==
    {Item("x", PyList(<<PyStr(<<"1">>), PyStr(<<"2">>)>>)),
     Item("y", PyInt(2)),
     Item("z", PyStr(<<"5">>))}

\* Cargo.__post_init__ and Cab.__post_init__: params is empty
InitC ==
    /\ \E inputs_outputs \in CabSchemas, policies \in TaskPolicies :
            cab = [inputs_outputs |-> inputs_outputs, policies |-> policies,
                   defaults |-> <<>>, params |-> <<>>]
    /\ cab_call = Idle
    /\ wranglers = <<>> /\ runtime_status = None /\ wr_call = NoCall
    /\ v_in = Idle /\ v_out = Idle /\ v_again = Idle

\* Cab.validate with the result merged into params instead of assigned
validated_cab_merged(r, params) ==
    /\ cab' = IF r.error = "" THEN [cab EXCEPT !.params = Update(@, r.value)] ELSE cab
    /\ cab_call' = IF r.error = ""
                   THEN [op |-> "validate", exc |-> "", value |-> PyDict(r.value),
                         params |-> params, before |-> cab.params]
                   ELSE [op |-> "validate", exc |-> r.error, value |-> None]

\* what Cab.validate makes of the outcome r of validate_parameters: self.params is
\* assigned when nothing was raised. The record of a call that returned keeps the
\* argument and the params of before the call.
validated_cab(r, params) ==
    /\ cab' = IF r.error = "" THEN [cab EXCEPT !.params = r.value] ELSE cab
    /\ cab_call' = IF r.error = ""
                   THEN [op |-> "validate", exc |-> "", value |-> PyDict(r.value),
                         params |-> params, before |-> cab.params]
                   ELSE [op |-> "validate", exc |-> r.error, value |-> None]

\* Cab.validate(config, params, subst)
validate(params, subst) ==
    /\ validated_cab(validate_parameters(params, cab.inputs_outputs, subst, cab.defaults,
                                         TRUE, TRUE, TRUE, TRUE),
                     params)
    /\ UNCHANGED <<wranglers, runtime_status, wr_call, v_in, v_out, v_again>>

\* Cargo.update_parameter(name, value)
update_parameter(name, value) ==
    /\ cab' = [cab EXCEPT !.params = Set(@, name, value)]
    /\ cab_call' = [op |-> "update_parameter", exc |-> "", value |-> None]
    /\ UNCHANGED <<wranglers, runtime_status, wr_call, v_in, v_out, v_again>>

\* what build_argument_list returned (a) or raised
built(a) ==
    cab_call' = [op |-> "build_argument_list", exc |-> a.exc,
                 value |-> IF a.exc = "" THEN PyList(a.args) ELSE None]

\* Cab.build_argument_list()
build_argument_list ==
    /\ built(argument_list(cab.params, cab.inputs_outputs, cab.policies))
    /\ UNCHANGED <<cab, wranglers, runtime_status, wr_call, v_in, v_out, v_again>>

NextC ==
    \/ \E params \in CabParamDicts, subst \in CabNamespaces : validate(params, subst)
    \/ \E u \in Updates : update_parameter(u.name, u.value)
    \/ build_argument_list

SpecC == InitC /\ [][NextC]_vars

(***************************************************************************)
(* Properties of the output wranglers (SpecW)                              *)
(***************************************************************************)
\* the rules of the cab whose regex matches the last call's line
Fired(rule) == regex_search(rule.regex, wr_call.output)
Fires(action) ==
    \E i \in 1..Len(wranglers) :
        /\ Fired(wranglers[i])
        /\ \E j \in 1..Len(wranglers[i].actions) : wranglers[i].actions[j] = action

\* C1: in every apply_output_wranglers call made while runtime_status is success or
\* failure, runtime_status keeps its value, whatever rules the line fires; only
\* reset_runtime_status takes a verdict back.
C1_FirstVerdictWins ==
    [][(runtime_status # None
        /\ \E output \in Lines, severity \in Severities :
                apply_output_wranglers(output, severity))
       => runtime_status' = runtime_status]_vars

\* C1's case: a call made with the verdict at failure whose line fires DECLARE_SUCCESS
C1_Witness ==
    /\ wr_call # NoCall
    /\ wr_call.before = PyBool(FALSE)
    /\ Fires(ACTION_DECLARE_SUCCESS)
    /\ runtime_status = PyBool(FALSE)

RECURSIVE cumulative_rules(_, _)
\* the rules applied as C8 describes them: each rule is matched against, and rewrites,
\* the line as the earlier rules left it
cumulative_rules(st, rules) ==
    IF rules = <<>> THEN st
    ELSE cumulative_rules(
            IF regex_search(Head(rules).regex, st.modified_output)
            THEN apply_actions(
                    IF Head(rules).replace # None
                    THEN [st EXCEPT !.modified_output =
                            regex_sub(Head(rules).regex, Head(rules).replace.v, @)]
                    ELSE st,
                    Head(rules).actions)
            ELSE st,
            Tail(rules))

\* C8: the call returns what the rules yield when applied cumulatively, in
\* declaration order, each to the line as rewritten so far.
C8_Cumulative ==
    wr_call # NoCall =>
        wr_call.ret = wrangle_return(
            cumulative_rules([suppress |-> FALSE, modified_output |-> wr_call.output,
                              severity |-> wr_call.severity, status |-> wr_call.before],
                             wranglers))

\* no rule's regex matches the last call's line
NoneFired == \A i \in 1..Len(wranglers) : ~Fired(wranglers[i])

\* C12: a call in which no rule's regex matches the line returns the line and the
\* severity exactly as given, and leaves runtime_status as it was.
C12_PassThrough ==
    (wr_call # NoCall /\ NoneFired)
    => /\ wr_call.ret = [line |-> PyStr(wr_call.output), severity |-> wr_call.severity]
       /\ wr_call.locals.status = wr_call.before

\* C12's case: a rule that declares failure and suppresses is configured, and does
\* not match the line
C12_Witness ==
    /\ wr_call # NoCall
    /\ NoneFired
    /\ Len(wranglers) = 1
    /\ wranglers[1].actions = <<ACTION_DECLARE_FAILURE, ACTION_SUPPRESS>>
    /\ wr_call.ret.line = PyStr(wr_call.output)

\* C13: a call that changes runtime_status from unknown to failure, and in which no
\* firing rule requests suppression, returns a line that starts with the failure
\* marker and the severity ERROR, whatever other actions and rules fire.
C13_FailureMarked ==
    (/\ wr_call # NoCall
     /\ wr_call.before = None
     /\ wr_call.locals.status = PyBool(FALSE)
     /\ ~Fires(ACTION_SUPPRESS))
    => /\ wr_call.ret.line.k = "str"
       /\ wr_call.ret.line.v # <<>>
       /\ Head(wr_call.ret.line.v) = FAILURE_MARK
       /\ wr_call.ret.severity = logging_ERROR

\* C15: a call made while runtime_status is unknown, whose line fires SUPPRESS and a
\* declaration, returns (None, 0) and sets runtime_status to the declared verdict
\* (to one of the two when both are declared), in any order of the actions and rules.
C15_SuppressKeepsVerdict ==
    [][(/\ runtime_status = None
        /\ \E output \in Lines, severity \in Severities :
                apply_output_wranglers(output, severity)
        /\ Fires(ACTION_SUPPRESS)'
        /\ Fires(ACTION_DECLARE_SUCCESS)' \/ Fires(ACTION_DECLARE_FAILURE)')
       => /\ wr_call'.ret = [line |-> None, severity |-> 0]
          /\ runtime_status' \in {PyBool(TRUE), PyBool(FALSE)}
          /\ ~Fires(ACTION_DECLARE_SUCCESS)' => runtime_status' = PyBool(FALSE)
          /\ ~Fires(ACTION_DECLARE_FAILURE)' => runtime_status' = PyBool(TRUE)]_vars

\* C15's case: one rule requests suppression and then declares failure, on a line
\* given while the verdict is unknown
C15_Witness ==
    /\ wr_call # NoCall
    /\ wr_call.before = None
    /\ Len(wranglers) = 1
    /\ wranglers[1].actions = <<ACTION_SUPPRESS, ACTION_DECLARE_FAILURE>>
    /\ Fired(wranglers[1])
    /\ wr_call.ret.line = None
    /\ runtime_status = PyBool(FALSE)

(***************************************************************************)
(* Properties of the cab (SpecC)                                           *)
(***************************************************************************)
\* build_argument_list has just run on cab.params
Built == cab_call # Idle /\ cab_call.op = "build_argument_list"
\* the parameter-level value of a policy field if the parameter sets it (it is not at
\* the default of ParameterPolicies), else the task-level value
Effective(schema, field) ==
    IF schema.policies[field] # ParameterPolicies[field] THEN schema.policies[field]
    ELSE cab.policies[field]
\* the option flag of a parameter without alias
Flag(name, schema) ==
    PyStr((IF Effective(schema, "prefix") # None THEN Effective(schema, "prefix").v
           ELSE <<"--">>) \o <<name>>)
\* the elements of a list, each as its string
Strings(value) == [i \in 1..Len(value.v) |-> PyStr(py_str(value.v[i]))]
\* F, v1, F, v2, ..., F, vn
Repeated(F, strings) ==
    [i \in 1..(2 * Len(strings)) |-> IF i % 2 = 1 THEN F ELSE strings[i \div 2]]
\* params holds exactly the optional, unskipped, unformatted parameter x, a list, and no
\* required parameter is missing
OnlyListX ==
    /\ Built
    /\ Keys(cab.params) = <<"x">>
    /\ \A i \in 1..Len(cab.inputs_outputs) :
            cab.inputs_outputs[i].value.required => cab.inputs_outputs[i].name = "x"
    /\ cab.params[1].value.k = "list"
    /\ ~truthy(Effective(Get(cab.inputs_outputs, "x"), "skip"))
    /\ Effective(Get(cab.inputs_outputs, "x"), "format") = None
    /\ Effective(Get(cab.inputs_outputs, "x"), "format_list") = None

\* what C5 expects of the call for the list value and the repeat policy
RepeatExpected(F, strings, repeat) ==
    IF repeat = None THEN cab_call.exc # ""
    ELSE /\ cab_call.exc = ""
         /\ cab_call.value =
                PyList(IF repeat = PyStr(<<"list">>) THEN <<F>> \o strings
                       ELSE IF repeat = PyStr(<<"repeat">>) THEN Repeated(F, strings)
                       ELSE <<F, PyStr(join(repeat.v, strings))>>)

\* C5: for the optional list-valued parameter x with flag F, build_argument_list
\* returns the flat string tokens F, v1, ..., vn with repeat "list"; F, v1, ..., F, vn
\* with repeat "repeat"; F and v1 s ... s vn joined with any other string s; and
\* raises an error with repeat unset.
C5_RepeatPolicies ==
    OnlyListX =>
        RepeatExpected(Flag("x", Get(cab.inputs_outputs, "x")),
                       Strings(cab.params[1].value),
                       Effective(Get(cab.inputs_outputs, "x"), "repeat"))

\* the items of a mapping in the order the schema declares their names
InSchemaOrder(d, schemas) ==
    [i \in 1..Len(SelectSeq(schemas, LAMBDA e : Has(d, e.name))) |->
        Item(SelectSeq(schemas, LAMBDA e : Has(d, e.name))[i].name,
             Get(d, SelectSeq(schemas, LAMBDA e : Has(d, e.name))[i].name))]

\* head-positional tokens, the optional tokens in schema order, tail-positional tokens
SchemaOrdered(pos) ==
    pos.head
    \o optional_loop([exc |-> "", args |-> <<>>],
                     InSchemaOrder(pos.value_dict, cab.inputs_outputs),
                     cab.inputs_outputs, cab.policies, 1).args
    \o pos.tail

\* C6: whenever build_argument_list accepts params (also after update_parameter), the
\* returned list is the head-positional tokens, then the optional parameters' tokens in
\* the order the schema declares them, then the tail-positional tokens.
C6_SchemaOrder ==
    (Built /\ cab_call.exc = "")
    => cab_call.value =
        PyList(SchemaOrdered(positionals_of(cab.params, cab.inputs_outputs, cab.policies)))

\* params holds exactly one parameter, declared with no policy of its own, and set
OnlyPlain(name) ==
    /\ Built /\ cab_call.exc = ""
    /\ Keys(cab.params) = <<name>>
    /\ cab.params[1].value # None
    /\ Has(cab.inputs_outputs, name)
    /\ Get(cab.inputs_outputs, name).policies = ParameterPolicies

\* C7: a parameter that sets no policy of its own takes the task-level skip and
\* skip_implicits: with task-level skip it contributes no tokens, and an implicit one
\* is emitted when the task-level skip_implicits is false.
C7_TaskLevelFallback ==
    \A name \in {"x", "y", "z"} :
        OnlyPlain(name) =>
            /\ cab.policies.skip = PyBool(TRUE) => cab_call.value = PyList(<<>>)
            /\ (/\ cab.policies.skip = PyBool(FALSE)
                /\ cab.policies.skip_implicits = PyBool(FALSE)
                /\ Get(cab.inputs_outputs, name).implicit # None)
               => cab_call.value # PyList(<<>>)

(***************************************************************************)
(* Properties of validate_parameters (SpecV)                               *)
(***************************************************************************)
\* the call reached the resolver with a namespace
Resolved(out) ==
    out # Idle /\ v_in.subst # None /\ out.error \notin {"unknown parameter", "AttributeError"}
IsTemplate(value) == value.k = "str" /\ has_field(value.v)
IsLiteral(value) == value.k = "str" /\ ~has_field(value.v)
Refers(value, tok) == value.k = "str" /\ \E i \in 1..Len(value.v) : value.v[i] = tok
\* the values the resolver starts from
Raw(name) == Get(add_defaults(SelectSeq(v_in.params, LAMBDA e : e.value.k # "unres"),
                              v_in.schemas, v_in.defaults), name)

\* C2: with a namespace, when a's template refers to b and b's to a, or a parameter's
\* template refers to the parameter itself, validate_parameters raises the
\* cyclic-substitution error.
C2_CycleRaises ==
    (/\ Resolved(v_out)
     /\ \/ Refers(Raw("a"), "{self.b}") /\ Refers(Raw("b"), "{self.a}")
        \/ Refers(Raw("a"), "{self.a}")
        \/ Refers(Raw("b"), "{self.b}"))
    => v_out.error = "recursion limit exceeded"

\* the passes before the last all changed a value
AllChanged(changes, n) == \A i \in 1..n : changes[i]

\* C3: the substitution loop makes at most 10 passes; it stops at the first pass that
\* changes nothing, and raises the cyclic-substitution error exactly when all 10
\* passes changed a value.
C3_AtMostTenPasses ==
    \A out \in {v_out, v_again} :
        Resolved(out) =>
            /\ Len(out.changes) \in 1..10
            /\ AllChanged(out.changes, Len(out.changes) - 1)
            /\ out.error = "recursion limit exceeded"
                <=> (Len(out.changes) = 10 /\ out.changes[10])
            /\ out.error # "recursion limit exceeded" => ~out.changes[Len(out.changes)]

\* C3's case: a call whose 10 passes all changed a value
C3_Witness ==
    /\ Resolved(v_out)
    /\ v_out.error = "recursion limit exceeded"
    /\ Len(v_out.changes) = 10

\* the number of the last pass that changed a value, 0 if none did
LastChange(changes) ==
    IF \E i \in 1..Len(changes) : changes[i]
    THEN CHOOSE i \in 1..Len(changes) :
            changes[i] /\ \A j \in (i + 1)..Len(changes) : ~changes[j]
    ELSE 0

\* C4: with a namespace, a = "{self.b}" and b a literal string resolve to a = b = the
\* literal; no pass after the 2nd changes a value, and the loop ends within 2 passes.
C4_FixedPoint ==
    (/\ Resolved(v_out)
     /\ Get(v_in.params, "a") = PyStr(<<"{self.b}">>)
     /\ IsLiteral(Get(v_in.params, "b")))
    => /\ v_out.error # "recursion limit exceeded"
       /\ Get(v_out.resolved, "a") = Get(v_in.params, "b")
       /\ Get(v_out.resolved, "b") = Get(v_in.params, "b")
       /\ LastChange(v_out.changes) <= 2
       /\ Len(v_out.changes) <= 2

\* C4's case, with a literal that is not empty
C4_Witness ==
    /\ Resolved(v_out)
    /\ Get(v_in.params, "a") = PyStr(<<"{self.b}">>)
    /\ Get(v_in.params, "b") = PyStr(<<"1">>)
    /\ Get(v_out.resolved, "a") = PyStr(<<"1">>)

CheckErrors == {"validation error", "invalid value", "invalid type", "no files found",
                "multiple files given", "is not a regular file", "is not a directory",
                "matches non-files", "matches non-directories"}

\* C9: a parameter of the schema whose substitution failed (its value is an Error)
\* makes none of the type, choice and file checks raise, and is returned unchanged.
C9_ErrorExempt ==
    \A name \in {"a", "b"} :
        (/\ Resolved(v_out)
         /\ Has(v_in.schemas, name)
         /\ Get(v_out.resolved, name).k = "err")
        => /\ ~(v_out.error \in CheckErrors /\ \E i \in 1..Len(v_out.names) : v_out.names[i] = name)
           /\ v_out.error = "" => Get(v_out.value, name) = Get(v_out.resolved, name)

HasUnresolved(d) == \E i \in 1..Len(d) : d[i].value.k = "unres"
HasTemplate(d) == \E i \in 1..Len(d) : IsTemplate(d[i].value)

\* C10: when validate_parameters returns a mapping with no Unresolved value (and, here,
\* no template text left in it), validating that mapping again with the same schema,
\* defaults, namespace and flags succeeds and returns the same mapping.
C10_Idempotent ==
    (/\ v_again # Idle
     /\ ~HasUnresolved(v_out.value)
     /\ ~HasTemplate(v_out.value))
    => v_again.error = "" /\ v_again.value = v_out.value

\* name has no value: none in params (an Unresolved marker is a value of its own kind),
\* and none from defaults
NoValue(name) == Get(v_in.params, name) = None /\ Get(v_in.defaults, name) = None
\* the required schema entries that have no value, in schema order
RequiredWithoutValue == Keys(SelectSeq(v_in.schemas, LAMBDA e : e.value.required /\ NoValue(e.name)))
Names(out, name) == \E i \in 1..Len(out.names) : out.names[i] = name

\* C11: with check_required set, a call that gets past the unknown-parameter check and
\* the substitution raises the missing-parameter error naming every required schema
\* entry that has no value and is not Unresolved; a required entry whose value is
\* Unresolved is not named by that error, and is returned as its Unresolved marker.
C11_MissingRequired ==
    (/\ v_out # Idle
     /\ v_in.flags.check_required
     /\ v_out.error \notin {"unknown parameter", "recursion limit exceeded"})
    => /\ RequiredWithoutValue # <<>>
            => (v_out.error = "missing required parameters" /\ v_out.names = RequiredWithoutValue)
       /\ \A name \in {"a", "b"} :
            (/\ Has(v_in.schemas, name)
             /\ Get(v_in.schemas, name).required
             /\ Get(v_in.params, name).k = "unres")
            => /\ ~(v_out.error = "missing required parameters" /\ Names(v_out, name))
               /\ v_out.error \in {"", "missing required parameters"}
                    \/ v_out.error \in CheckErrors
               /\ v_out.error = "" => Get(v_out.value, name) = Get(v_in.params, name)

(***************************************************************************)
(* Properties of Cab.validate (SpecC)                                      *)
(***************************************************************************)
\* Cab.validate has just returned
Validated == cab_call # Idle /\ cab_call.op = "validate" /\ cab_call.exc = ""

\* C14: after a successful Cab.validate, params is exactly the mapping that validation
\* returned: each of its entries comes from the call's own params argument (the cab
\* has no defaults), and an entry of before the call that the validation did not
\* produce is gone.
C14_Overwritten ==
    Validated
    => /\ PyDict(cab.params) = cab_call.value
       /\ \A i \in 1..Len(cab.params) : Has(cab_call.params, cab.params[i].name)
       /\ \A i \in 1..Len(cab_call.before) :
            ~Has(cab_call.params, cab_call.before[i].name)
                => ~Has(cab.params, cab_call.before[i].name)

\* C14's case: params held an entry for y, set by update_parameter, that the new
\* validation was not given; after the validation it is gone
C14_Witness ==
    /\ Validated
    /\ Get(cab_call.before, "y") = PyInt(2)
    /\ ~Has(cab_call.params, "y")
    /\ cab.params # <<>>
    /\ ~Has(cab.params, "y")

====
